---- MODULE Spec2Model ----
(***************************************************************************)
(* ConnectionLimiter of pkg/server/connection_limiter.go: the active map,  *)
(* the RWMutex that guards it, the callers of Acquire / Touch / Release /  *)
(* ActiveCount, the background goroutine sweepStaleHLS with its ticker,    *)
(* and Stop.  Times are in seconds.                                        *)
(***************************************************************************)
EXTENDS Integers, FiniteSets, Sequences, TLC

\* const ( hlsStaleTimeout = 30 * time.Second; hlsSweepInterval = 10 * time.Second )
hlsStaleTimeout == 30
hlsSweepInterval == 10

\* The clock is watched for MaxPeriods periods of hlsStaleTimeout.
MaxPeriods == 2

\* The calls the callers make: (clientIP, streamID) pairs of opaque strings.
\* ("a", ":1") and ("a:", "1") are different pairs with the same connKey.
Requests ==
    {<<"a", "1">>, <<"a", ":1">>, <<"a", "2">>, <<"a:", "1">>, <<"b", "1">>, <<"b", "2">>}

\* The calls made while the reaper is watched at the finer clock.
ReaperRequests == {<<"a", "1">>, <<"a", "2">>, <<"b", "1">>}

\* The calls made while the reaper is watched under fair scheduling.
FairRequests == {<<"a", "1">>, <<"b", "1">>}

\* Goroutines that call into the limiter, and the limits it is built with.
Callers == {"c1", "c2"}
Limits == {1, 2}

VARIABLES
    active,          \* cl.active: key -> connEntry
    maxConnections,  \* cl.maxConnections
    done,            \* cl.done is closed
    mu,              \* cl.mu: the goroutines holding it for writing / reading
    now,             \* time.Now()
    ticker,          \* ticker.C holds a tick (a channel of capacity one)
    sweeper,         \* position of the goroutine running sweepStaleHLS
    call,            \* per caller: position, operation, arguments, result
    panicked         \* the process died of a panic

vars == <<active, maxConnections, done, mu, now, ticker, sweeper, call, panicked>>

Sweeper == "sweeper"

\* ---------------------------------------------------------------- values

\* An entry built without its lastSeen, left at the zero time.
connEntry_noLastSeen(startTime, lastSeen, isHLS, clientIP) ==
    [startTime |-> startTime, lastSeen |-> 0, isHLS |-> isHLS, clientIP |-> clientIP]

\* type connEntry struct
connEntry(startTime, lastSeen, isHLS, clientIP) ==
    [startTime |-> startTime, lastSeen |-> lastSeen, isHLS |-> isHLS, clientIP |-> clientIP]

\* func connKey(clientIP, streamID string) string
connKey(clientIP, streamID) == clientIP \o ":" \o streamID

\* A nil error, and the error checkLimit builds with fmt.Errorf.
Nil == [err |-> FALSE, count |-> 0, max |-> 0]
Errorf_swapped(count, max) == [err |-> TRUE, count |-> max, max |-> count]
Errorf(count, max) == [err |-> TRUE, count |-> count, max |-> max]

\* len(cl.active)
len(m) == Cardinality(DOMAIN m)

\* A delete that drops every stream of the entry's client.
delete_clientStreams(m, key) ==
    [k \in {j \in DOMAIN m : m[j].clientIP # m[key].clientIP} |-> m[k]]

\* delete(m, key)
delete(m, key) == [k \in DOMAIN m \ {key} |-> m[k]]

\* A store that builds the map anew and loses what it held.
store_losesOthers(m, key, entry) == [k \in {key} |-> entry]

\* m[key] = entry
store(m, key, entry) == [k \in DOMAIN m \cup {key} |-> IF k = key THEN entry ELSE m[k]]

\* A lookup that never finds the key.
exists_never(k) == FALSE

\* _, exists := cl.active[key]
exists(k) == k \in DOMAIN active

\* A count that forgets to compare the entry's client.
countIPStreams_anyClient(clientIP) == Cardinality(DOMAIN active)

\* func (cl *ConnectionLimiter) countIPStreams(clientIP string) int
countIPStreams(clientIP) ==
    Cardinality({k \in DOMAIN active : active[k].clientIP = clientIP})

\* The grace rule without its test of the size: any client with a stream is let in.
checkLimit_graceWhenOver(clientIP) ==
    IF maxConnections <= 0 THEN Nil
    ELSE IF Cardinality(DOMAIN active) < maxConnections THEN Nil
    ELSE IF Cardinality({k \in DOMAIN active : active[k].clientIP = clientIP}) > 0 THEN Nil
    ELSE Errorf(Cardinality(DOMAIN active), maxConnections)

\* The grace rule tested with <= maxConnections + 1 in place of == maxConnections.
checkLimit_graceUpTo(clientIP) ==
    IF maxConnections <= 0 THEN Nil
    ELSE IF Cardinality(DOMAIN active) < maxConnections THEN Nil
    ELSE IF /\ Cardinality(DOMAIN active) <= maxConnections + 1
            /\ Cardinality({k \in DOMAIN active : active[k].clientIP = clientIP}) > 0 THEN Nil
    ELSE Errorf(Cardinality(DOMAIN active), maxConnections)

\* checkLimit without its test for the unlimited mode.
checkLimit_noUnlimited(clientIP) ==
    IF Cardinality(DOMAIN active) < maxConnections THEN Nil
    ELSE IF /\ Cardinality(DOMAIN active) = maxConnections
            /\ Cardinality({k \in DOMAIN active : active[k].clientIP = clientIP}) > 0 THEN Nil
    ELSE Errorf(Cardinality(DOMAIN active), maxConnections)

\* func (cl *ConnectionLimiter) checkLimit(clientIP string) error
checkLimit(clientIP) ==
    IF maxConnections <= 0 THEN Nil
    ELSE IF len(active) < maxConnections THEN Nil
    ELSE IF len(active) = maxConnections /\ countIPStreams(clientIP) > 0 THEN Nil
    ELSE Errorf(len(active), maxConnections)

\* The sweep's test with the subtraction turned around.
stale_reversed(entry, t) == entry.isHLS /\ entry.lastSeen - t > hlsStaleTimeout

\* The sweep's test with >= in place of >.
stale_atThreshold(entry, t) == entry.isHLS /\ t - entry.lastSeen >= hlsStaleTimeout

\* The sweep's test of one entry: entry.isHLS && now.Sub(entry.lastSeen) > hlsStaleTimeout
stale(entry, t) == entry.isHLS /\ t - entry.lastSeen > hlsStaleTimeout

\* ---------------------------------------------------------------- the RWMutex

\* A Lock that never waits.
canLock_noWait == TRUE

\* cl.mu.Lock() can return: nobody holds the mutex.
canLock == mu.w = {} /\ mu.r = {}

\* cl.mu.RLock() can return: no writer holds the mutex.
canRLock == mu.w = {}

Lock(g) == [mu EXCEPT !.w = @ \cup {g}]
Unlock(g) == [mu EXCEPT !.w = @ \ {g}]
RLock(g) == [mu EXCEPT !.r = @ \cup {g}]
RUnlock(g) == [mu EXCEPT !.r = @ \ {g}]

\* ---------------------------------------------------------------- construction

Idle == [pc |-> "idle", op |-> "", clientIP |-> "", streamID |-> "", ret |-> Nil]

\* func NewConnectionLimiter(max int) *ConnectionLimiter
Init ==
    /\ active = <<>>
    /\ maxConnections \in Limits
    /\ done = FALSE
    /\ mu = [w |-> {}, r |-> {}]
    /\ now = 0
    /\ ticker = FALSE
    /\ sweeper = "select"
    /\ call = [c \in Callers |-> Idle]
    /\ panicked = FALSE

\* ---------------------------------------------------------------- callers

\* The position a caller is in once it is inside an operation.
Entered(pc, op, clientIP, streamID) ==
    [pc |-> pc, op |-> op, clientIP |-> clientIP, streamID |-> streamID, ret |-> Nil]

key(c) == connKey(call[c].clientIP, call[c].streamID)

\* A caller reaches cl.mu.Lock() / cl.mu.RLock() of an operation: it makes the
\* call now, or it has made it and waits for the mutex.
arrives(c, op, clientIP, streamID) ==
    \/ call[c].pc = "idle"
    \/ call[c] = Entered("lock", op, clientIP, streamID)

\* An Acquire that does not look its key up and goes on to store over it.
AcquireEnter_noLookup(c, clientIP, streamID) ==
    /\ ~panicked
    /\ call[c].pc = "idle"
    /\ mu.w = {} /\ mu.r = {}
    /\ mu' = [mu EXCEPT !.w = @ \cup {c}]
    /\ call' = [call EXCEPT ![c] = Entered("checkLimit", "Acquire", clientIP, streamID)]
    /\ UNCHANGED <<active, maxConnections, done, now, ticker, sweeper, panicked>>

\* Acquire: cl.mu.Lock(); key := connKey(clientIP, streamID)
\*          if _, exists := cl.active[key]; exists { return nil }
AcquireEnter(c, clientIP, streamID) ==
    /\ ~panicked
    /\ arrives(c, "Acquire", clientIP, streamID)
    /\ canLock
    /\ mu' = Lock(c)
    /\ call' = [call EXCEPT ![c] =
           Entered(IF exists(connKey(clientIP, streamID)) THEN "return" ELSE "checkLimit",
                   "Acquire", clientIP, streamID)]
    /\ UNCHANGED <<active, maxConnections, done, now, ticker, sweeper, panicked>>

\* A Touch that marks the entry it refreshes as an HLS one.
TouchEnter_marksHLS(c, clientIP, streamID) ==
    /\ ~panicked
    /\ call[c].pc = "idle"
    /\ mu.w = {} /\ mu.r = {}
    /\ mu' = [mu EXCEPT !.w = @ \cup {c}]
    /\ IF connKey(clientIP, streamID) \in DOMAIN active
       THEN /\ active' = [active EXCEPT ![connKey(clientIP, streamID)].lastSeen = now,
                                        ![connKey(clientIP, streamID)].isHLS = TRUE]
            /\ call' = [call EXCEPT ![c] = Entered("return", "Touch", clientIP, streamID)]
       ELSE /\ active' = active
            /\ call' = [call EXCEPT ![c] = Entered("checkLimit", "Touch", clientIP, streamID)]
    /\ UNCHANGED <<maxConnections, done, now, ticker, sweeper, panicked>>

\* A Touch that stores a fresh entry over the one it finds.
TouchEnter_storesAnew(c, clientIP, streamID) ==
    /\ ~panicked
    /\ call[c].pc = "idle"
    /\ mu.w = {} /\ mu.r = {}
    /\ mu' = [mu EXCEPT !.w = @ \cup {c}]
    /\ IF connKey(clientIP, streamID) \in DOMAIN active
       THEN /\ active' = [active EXCEPT ![connKey(clientIP, streamID)] =
                              [startTime |-> now, lastSeen |-> now, isHLS |-> TRUE,
                               clientIP |-> clientIP]]
            /\ call' = [call EXCEPT ![c] = Entered("return", "Touch", clientIP, streamID)]
       ELSE /\ active' = active
            /\ call' = [call EXCEPT ![c] = Entered("checkLimit", "Touch", clientIP, streamID)]
    /\ UNCHANGED <<maxConnections, done, now, ticker, sweeper, panicked>>

\* Touch: cl.mu.Lock(); key := connKey(clientIP, streamID)
\*        if entry, exists := cl.active[key]; exists { entry.lastSeen = time.Now(); return nil }
TouchEnter(c, clientIP, streamID) ==
    /\ ~panicked
    /\ arrives(c, "Touch", clientIP, streamID)
    /\ canLock
    /\ mu' = Lock(c)
    /\ LET k == connKey(clientIP, streamID) IN
       IF exists(k)
       THEN /\ active' = [active EXCEPT ![k].lastSeen = now]
            /\ call' = [call EXCEPT ![c] = Entered("return", "Touch", clientIP, streamID)]
       ELSE /\ active' = active
            /\ call' = [call EXCEPT ![c] = Entered("checkLimit", "Touch", clientIP, streamID)]
    /\ UNCHANGED <<maxConnections, done, now, ticker, sweeper, panicked>>

\* The entry stored before the limit is checked.
CheckLimit_storesFirst(c) ==
    /\ ~panicked
    /\ call[c].pc = "checkLimit"
    /\ active' = store(active, connKey(call[c].clientIP, call[c].streamID),
                       connEntry(now, now, call[c].op = "Touch", call[c].clientIP))
    /\ LET err == checkLimit(call[c].clientIP) IN
       call' = [call EXCEPT ![c].pc = "return", ![c].ret = err]
    /\ UNCHANGED <<maxConnections, done, mu, now, ticker, sweeper, panicked>>

\* Acquire / Touch: if err := cl.checkLimit(clientIP); err != nil { return err }
CheckLimit(c) ==
    /\ ~panicked
    /\ call[c].pc = "checkLimit"
    /\ LET err == checkLimit(call[c].clientIP) IN
       call' = [call EXCEPT ![c].pc = IF err.err THEN "return" ELSE "insert",
                            ![c].ret = err]
    /\ UNCHANGED <<active, maxConnections, done, mu, now, ticker, sweeper, panicked>>

\* Acquire: now := time.Now(); cl.active[key] = &connEntry{... isHLS: false ...}; return nil
AcquireInsert(c) ==
    /\ ~panicked
    /\ call[c].pc = "insert" /\ call[c].op = "Acquire"
    /\ active' = store(active, key(c), connEntry(now, now, FALSE, call[c].clientIP))
    /\ call' = [call EXCEPT ![c].pc = "return", ![c].ret = Nil]
    /\ UNCHANGED <<maxConnections, done, mu, now, ticker, sweeper, panicked>>

\* Touch: now := time.Now(); cl.active[key] = &connEntry{... isHLS: true ...}; return nil
TouchInsert(c) ==
    /\ ~panicked
    /\ call[c].pc = "insert" /\ call[c].op = "Touch"
    /\ active' = store(active, key(c), connEntry(now, now, TRUE, call[c].clientIP))
    /\ call' = [call EXCEPT ![c].pc = "return", ![c].ret = Nil]
    /\ UNCHANGED <<maxConnections, done, mu, now, ticker, sweeper, panicked>>

\* Release: cl.mu.Lock(); key := connKey(clientIP, streamID)
\*          if _, exists := cl.active[key]; exists { delete(cl.active, key) }
Release(c, clientIP, streamID) ==
    /\ ~panicked
    /\ arrives(c, "Release", clientIP, streamID)
    /\ canLock
    /\ mu' = Lock(c)
    /\ LET k == connKey(clientIP, streamID) IN
       active' = IF exists(k) THEN delete(active, k) ELSE active
    /\ call' = [call EXCEPT ![c] = Entered("return", "Release", clientIP, streamID)]
    /\ UNCHANGED <<maxConnections, done, now, ticker, sweeper, panicked>>

\* ActiveCount: cl.mu.RLock(); return len(cl.active)
ActiveCount(c) ==
    /\ ~panicked
    /\ arrives(c, "ActiveCount", "", "")
    /\ canRLock
    /\ mu' = RLock(c)
    /\ call' = [call EXCEPT ![c] = [Entered("return", "ActiveCount", "", "")
                                       EXCEPT !.ret.count = len(active)]]
    /\ UNCHANGED <<active, maxConnections, done, now, ticker, sweeper, panicked>>

\* A return on which the deferred unlock is missing.
Return_keepsLock(c) ==
    /\ ~panicked
    /\ call[c].pc = "return"
    /\ call' = [call EXCEPT ![c] = Idle]
    /\ UNCHANGED <<active, maxConnections, done, mu, now, ticker, sweeper, panicked>>

\* The deferred cl.mu.Unlock() / cl.mu.RUnlock(), and the return to the caller.
Return(c) ==
    /\ ~panicked
    /\ call[c].pc = "return"
    /\ mu' = IF call[c].op = "ActiveCount" THEN RUnlock(c) ELSE Unlock(c)
    /\ call' = [call EXCEPT ![c] = Idle]
    /\ UNCHANGED <<active, maxConnections, done, now, ticker, sweeper, panicked>>

\* ---------------------------------------------------------------- Stop

\* func (cl *ConnectionLimiter) Stop() { close(cl.done) }
\* Closing a channel that is already closed panics, and a panic ends the
\* process: no goroutine takes another step.
Stop ==
    /\ ~panicked
    /\ panicked' = done
    /\ done' = TRUE
    /\ UNCHANGED <<active, maxConnections, mu, now, ticker, sweeper, call>>

\* ---------------------------------------------------------------- sweepStaleHLS

\* Time passes by d; the ticker (period hlsSweepInterval <= d) puts a tick in
\* its channel, which holds at most one.
AdvanceTime(d) ==
    /\ ~panicked
    /\ d >= hlsSweepInterval
    /\ now + d <= MaxPeriods * hlsStaleTimeout
    /\ now' = now + d
    /\ ticker' = TRUE
    /\ UNCHANGED <<active, maxConnections, done, mu, sweeper, call, panicked>>

\* select { case <-cl.done: return
SweeperDone ==
    /\ ~panicked
    /\ sweeper = "select"
    /\ done
    /\ sweeper' = "exited"
    /\ UNCHANGED <<active, maxConnections, done, mu, now, ticker, call, panicked>>

\* select { case <-ticker.C:
\* When cl.done is closed and a tick is there, select takes either case.
SweeperTick ==
    /\ ~panicked
    /\ sweeper = "select"
    /\ ticker
    /\ ticker' = FALSE
    /\ sweeper' = "lock"
    /\ UNCHANGED <<active, maxConnections, done, mu, now, call, panicked>>

\* cl.mu.Lock()
SweeperLock ==
    /\ ~panicked
    /\ sweeper = "lock"
    /\ canLock
    /\ mu' = Lock(Sweeper)
    /\ sweeper' = "sweep"
    /\ UNCHANGED <<active, maxConnections, done, now, ticker, call, panicked>>

\* What the loop over cl.active leaves, with now = t.
swept(m, t) == [k \in {j \in DOMAIN m : ~stale(m[j], t)} |-> m[k]]

\* now := time.Now(); for key, entry := range cl.active { ... delete ... }; cl.mu.Unlock()
SweeperSweep ==
    /\ ~panicked
    /\ sweeper = "sweep"
    /\ active' = swept(active, now)
    /\ mu' = Unlock(Sweeper)
    /\ sweeper' = "select"
    /\ UNCHANGED <<maxConnections, done, now, ticker, call, panicked>>

\* ---------------------------------------------------------------- the system

\* The calls of the goroutines cs, with arguments from rqs.
CallerNext(cs, rqs) ==
    \/ \E c \in cs, rq \in rqs :
         \/ AcquireEnter(c, rq[1], rq[2])
         \/ TouchEnter(c, rq[1], rq[2])
         \/ Release(c, rq[1], rq[2])
    \/ \E c \in cs :
         \/ CheckLimit(c)
         \/ AcquireInsert(c)
         \/ TouchInsert(c)
         \/ ActiveCount(c)
         \/ Return(c)

\* The clock, observed every d seconds, and the sweep goroutine.
ReaperNext(d) ==
    \/ AdvanceTime(d)
    \/ SweeperTick
    \/ SweeperLock
    \/ SweeperSweep

StopNext ==
    \/ Stop
    \/ SweeperDone

\* Two callers and the reaper, the clock observed at every second hlsStaleTimeout.
Next ==
    \/ CallerNext(Callers, Requests)
    \/ ReaperNext(2 * hlsStaleTimeout)
    \/ StopNext

Spec == Init /\ [][Next]_vars

\* One caller and the reaper, the clock observed at every hlsStaleTimeout.
NextReaper ==
    \/ CallerNext({"c1"}, ReaperRequests)
    \/ ReaperNext(hlsStaleTimeout)
    \/ StopNext

SpecReaper == Init /\ [][NextReaper]_vars

\* The reaper under fair scheduling: time passes and the ticker fires, a
\* goroutine that can run does run, so the caller leaves the mutex and the
\* sweep goroutine takes its tick and sweeps; sync.RWMutex does not starve a
\* waiting Lock that can be granted again and again.  Nothing obliges the
\* caller to call, and nothing obliges anyone to Stop.
FairReaper ==
    /\ WF_vars(AdvanceTime(hlsStaleTimeout))
    /\ WF_vars(SweeperTick)
    /\ SF_vars(SweeperLock)
    /\ WF_vars(SweeperSweep)
    /\ WF_vars(CheckLimit("c1") \/ AcquireInsert("c1") \/ TouchInsert("c1") \/ Return("c1"))

\* One caller with two streams of two clients, and the reaper.
NextReaperFair ==
    \/ CallerNext({"c1"}, FairRequests)
    \/ ReaperNext(hlsStaleTimeout)
    \/ StopNext

SpecReaperFair == Init /\ [][NextReaperFair]_vars /\ FairReaper

\* NewConnectionLimiter(0): the unlimited mode.
InitUnlimited ==
    /\ active = <<>>
    /\ maxConnections = 0
    /\ done = FALSE
    /\ mu = [w |-> {}, r |-> {}]
    /\ now = 0
    /\ ticker = FALSE
    /\ sweeper = "select"
    /\ call = [c \in Callers |-> Idle]
    /\ panicked = FALSE

\* Two callers of an unlimited limiter, the clock advancing once.
NextUnlimited ==
    \/ CallerNext(Callers, Requests)
    \/ AdvanceTime(MaxPeriods * hlsStaleTimeout)

SpecUnlimited == InitUnlimited /\ [][NextUnlimited]_vars

\* ---------------------------------------------------------------- properties

\* In the properties a key is what the limiter keys its map by, the string of
\* connKey; a call's key is tracked when the map holds an entry under it.

\* A caller is inside Acquire or Touch.
admitting(c) == call[c].op \in {"Acquire", "Touch"}

\* The active set holds an entry of the client.
hasEntry(clientIP) == \E k \in DOMAIN active : active[k].clientIP = clientIP

\* C1: with maxConnections = L > 0 the active set never holds more than L + 1
\* entries, whatever the interleaving of Acquire, Touch, Release and sweeps.
C1_SizeAtMostLimitPlusOne ==
    maxConnections > 0 => Cardinality(DOMAIN active) <= maxConnections + 1

\* The grace slot is taken with two clients present.
C1_Witness ==
    /\ maxConnections = 2
    /\ Cardinality(DOMAIN active) = 3
    /\ Cardinality({active[k].clientIP : k \in DOMAIN active}) >= 2

\* C2: the existence check, the admission check and the insertion of one call
\* are one atomic step for every other caller and the reaper: while a caller is
\* between its checks and its insertion, no other goroutine is inside the
\* mutex, its key is still untracked, and a caller that passed the admission
\* check would still pass it.
C2_AdmissionAtomic ==
    \A c \in Callers :
        call[c].pc \in {"checkLimit", "insert"} =>
            /\ \A d \in Callers \ {c} : call[d].pc = "idle"
            /\ sweeper # "sweep"
            /\ connKey(call[c].clientIP, call[c].streamID) \notin DOMAIN active
            /\ call[c].pc = "insert" /\ maxConnections > 0 =>
                   \/ Cardinality(DOMAIN active) < maxConnections
                   \/ /\ Cardinality(DOMAIN active) = maxConnections
                      /\ hasEntry(call[c].clientIP)

\* A caller has passed the admission check at exactly the limit and holds the
\* mutex; the other caller and a sweep that is due have to wait.
C2_Witness ==
    \E c \in Callers :
        /\ call[c].pc = "insert"
        /\ Cardinality(DOMAIN active) = maxConnections
        /\ mu.w = {c}
        /\ sweeper = "lock"
        /\ \A d \in Callers \ {c} : call[d].pc = "idle"

\* C3: with L > 0 and exactly L entries, an Acquire or Touch for an untracked
\* key runs the admission check, which passes if and only if the active set
\* holds an entry of the requesting client; the call that passes stores its
\* entry and returns nil, the other returns the error.
C3_GraceRule ==
    [][\A c \in Callers :
          /\ ( /\ call[c].pc = "idle" /\ call'[c].op \in {"Acquire", "Touch"}
               /\ connKey(call'[c].clientIP, call'[c].streamID) \notin DOMAIN active )
             => call'[c].pc = "checkLimit"
          /\ ( /\ call[c].pc = "checkLimit" /\ call'[c] # call[c]
               /\ maxConnections > 0
               /\ Cardinality(DOMAIN active) = maxConnections )
             => IF hasEntry(call[c].clientIP)
                THEN call'[c].pc = "insert"
                ELSE call'[c].pc = "return" /\ call'[c].ret.err
          /\ ( call[c].pc = "insert" /\ call'[c] # call[c] )
             => /\ call'[c].pc = "return" /\ ~call'[c].ret.err
                /\ connKey(call[c].clientIP, call[c].streamID) \in DOMAIN active'
      ]_vars

\* A call admitted by the grace rule has stored its entry: the client has two
\* entries among L + 1, the newest of them under the call's key.
C3_Witness ==
    \E c \in Callers :
        /\ call[c].pc = "return" /\ admitting(c) /\ ~call[c].ret.err
        /\ Cardinality(DOMAIN active) = maxConnections + 1
        /\ connKey(call[c].clientIP, call[c].streamID) \in DOMAIN active
        /\ \E j \in DOMAIN active :
              /\ j # connKey(call[c].clientIP, call[c].streamID)
              /\ active[j].clientIP = call[c].clientIP
              /\ active[j].startTime < active[connKey(call[c].clientIP, call[c].streamID)].startTime
        /\ active[connKey(call[c].clientIP, call[c].streamID)].startTime = now

\* C4: with L > 0 and L + 1 entries, every Acquire or Touch for an untracked
\* key runs the admission check and the check fails, whoever the client is;
\* the active set stays as it is.
C4_RejectedAboveLimit ==
    [][\A c \in Callers :
          maxConnections > 0 /\ Cardinality(DOMAIN active) = maxConnections + 1 =>
              /\ ( /\ call[c].pc = "idle" /\ call'[c].op \in {"Acquire", "Touch"}
                   /\ connKey(call'[c].clientIP, call'[c].streamID) \notin DOMAIN active )
                 => call'[c].pc = "checkLimit" /\ active' = active
              /\ ( call[c].pc = "checkLimit" /\ call'[c] # call[c] )
                 => /\ call'[c].pc = "return" /\ call'[c].ret.err
                    /\ active' = active
      ]_vars

\* The client holding two of the L + 1 entries is rejected.
C4_Witness ==
    \E c \in Callers :
        /\ call[c].pc = "return" /\ admitting(c) /\ call[c].ret.err
        /\ maxConnections = 2
        /\ Cardinality(DOMAIN active) = 3
        /\ Cardinality({k \in DOMAIN active : active[k].clientIP = call[c].clientIP}) = 2

\* C5: Acquire or Touch on a tracked key returns nil and leaves the set of
\* keys, hence ActiveCount, as it was, whatever the size of the active set.
C5_TrackedKeyIsNoop ==
    [][\A c \in Callers :
          ( /\ call[c].pc = "idle" /\ call'[c].op \in {"Acquire", "Touch"}
            /\ connKey(call'[c].clientIP, call'[c].streamID) \in DOMAIN active )
          => /\ call'[c].pc = "return" /\ ~call'[c].ret.err
             /\ DOMAIN active' = DOMAIN active
      ]_vars

\* Acquire returned nil for a key a Touch had stored, with L + 1 entries.
C5_Witness ==
    \E c \in Callers :
        /\ call[c].pc = "return" /\ call[c].op = "Acquire" /\ ~call[c].ret.err
        /\ connKey(call[c].clientIP, call[c].streamID) \in DOMAIN active
        /\ active[connKey(call[c].clientIP, call[c].streamID)].isHLS
        /\ Cardinality(DOMAIN active) = maxConnections + 1

\* C6: a call that returns the error changes nothing: from its entry to its
\* return every step, its own or another goroutine's, leaves the active map
\* (keys and entries) as it was.
C6_RejectionChangesNothing ==
    [][\A c \in Callers :
          ( \/ call[c].pc = "idle" /\ call'[c].pc = "checkLimit"
            \/ call[c].pc = "checkLimit"
            \/ call[c].pc = "return" /\ admitting(c) /\ call[c].ret.err )
          => active' = active
      ]_vars

\* A Touch was rejected at the limit, with both kinds of entry in the set.
C6_Witness ==
    \E c \in Callers :
        /\ call[c].pc = "return" /\ call[c].op = "Touch" /\ call[c].ret.err
        /\ \E j, k \in DOMAIN active : active[j].isHLS /\ ~active[k].isHLS

\* C7: Release of a tracked key removes that key's entry, leaves every other
\* entry as it was and lowers the count by one; Release of an untracked key
\* leaves the active map as it was; neither panics, and nothing changes the
\* map between the removal and the return.
C7_Release ==
    [][\A c \in Callers :
          /\ ( call[c].pc = "return" /\ call[c].op = "Release" ) => active' = active
          /\ ( call[c].pc = "idle" /\ call'[c].op = "Release" )
          => LET k == connKey(call'[c].clientIP, call'[c].streamID) IN
             /\ DOMAIN active' = DOMAIN active \ {k}
             /\ \A j \in DOMAIN active' : active'[j] = active[j]
             /\ Cardinality(DOMAIN active') =
                    IF k \in DOMAIN active THEN Cardinality(DOMAIN active) - 1
                    ELSE Cardinality(DOMAIN active)
             /\ ~call'[c].ret.err /\ ~panicked'
      ]_vars

\* A Release has run and its key is gone, while the client's other stream and
\* another client's stream are still tracked.
C7_Witness ==
    \E c \in Callers :
        /\ call[c].pc = "return" /\ call[c].op = "Release"
        /\ connKey(call[c].clientIP, call[c].streamID) \notin DOMAIN active
        /\ Cardinality(DOMAIN active) = 2
        /\ \E j, k \in DOMAIN active :
              active[j].clientIP = call[c].clientIP /\ active[k].clientIP # call[c].clientIP

\* C8: a sweep removes exactly the Polled entries whose age, now - lastSeen,
\* is above hlsStaleTimeout: Persistent entries stay whatever their age,
\* Polled entries of age hlsStaleTimeout or less stay, and the entries that
\* stay are as they were.
C8_SweepRemovesExactlyStalePolled ==
    [][( sweeper = "sweep" /\ sweeper' # "sweep" ) =>
          /\ DOMAIN active' =
                 {k \in DOMAIN active :
                      ~active[k].isHLS \/ now - active[k].lastSeen <= hlsStaleTimeout}
          /\ \A k \in DOMAIN active' : active'[k] = active[k]
      ]_vars

\* A sweep has run at the last instant of the clock and has left a Persistent
\* entry of age above the threshold and a Polled entry of age hlsStaleTimeout.
C8_Witness ==
    /\ sweeper = "select" /\ ~ticker /\ now = 2 * hlsStaleTimeout
    /\ \E j, k \in DOMAIN active :
          /\ ~active[j].isHLS /\ now - active[j].lastSeen > hlsStaleTimeout
          /\ active[k].isHLS /\ now - active[k].lastSeen = hlsStaleTimeout

\* C9: a second Stop does not panic.
C9_StopIsIdempotent == ~panicked

\* C10: once Stop has returned, no sweep removes an entry.
C10_NoSweepAfterStop ==
    [][( done /\ sweeper = "sweep" /\ sweeper' # "sweep" ) => active' = active]_vars

\* ---------------------------------------------------------------- concurrent calls

\* TestConcurrentAccess: goroutines launched together, one call each.
ConcurrentCallers == {"c1", "c2", "c3"}

\* A limiter built with room for every one of them, still empty; every
\* goroutine has made its Acquire or Touch and waits for the mutex; no two of
\* them name the same key.
InitConcurrent ==
    /\ active = <<>>
    /\ maxConnections = Cardinality(ConcurrentCallers)
    /\ done = FALSE
    /\ mu = [w |-> {}, r |-> {}]
    /\ now = 0
    /\ ticker = FALSE
    /\ sweeper = "select"
    /\ call \in [ConcurrentCallers ->
                    {Entered("lock", op, rq[1], rq[2]) : op \in {"Acquire", "Touch"}, rq \in Requests}]
    /\ \A c, d \in ConcurrentCallers : c # d => key(c) # key(d)
    /\ panicked = FALSE

\* cl.mu.Lock() of a waiting Acquire / Touch returns.
AcquireLocked(c) ==
    /\ call[c].pc = "lock" /\ call[c].op = "Acquire"
    /\ AcquireEnter(c, call[c].clientIP, call[c].streamID)

TouchLocked(c) ==
    /\ call[c].pc = "lock" /\ call[c].op = "Touch"
    /\ TouchEnter(c, call[c].clientIP, call[c].streamID)

NextConcurrent ==
    \E c \in ConcurrentCallers :
        \/ AcquireLocked(c)
        \/ TouchLocked(c)
        \/ CheckLimit(c)
        \/ AcquireInsert(c)
        \/ TouchInsert(c)
        \/ Return(c)

SpecConcurrent == InitConcurrent /\ [][NextConcurrent]_vars

\* ---------------------------------------------------------------- calls that wait

\* A goroutine calls an operation and blocks in cl.mu.Lock() / cl.mu.RLock().
Invoke(c, op, clientIP, streamID) ==
    /\ ~panicked
    /\ call[c].pc = "idle"
    /\ call' = [call EXCEPT ![c] = Entered("lock", op, clientIP, streamID)]
    /\ UNCHANGED <<active, maxConnections, done, mu, now, ticker, sweeper, panicked>>

\* cl.mu.Lock() of a waiting Release, cl.mu.RLock() of a waiting ActiveCount.
ReleaseLocked(c) ==
    /\ call[c].pc = "lock" /\ call[c].op = "Release"
    /\ Release(c, call[c].clientIP, call[c].streamID)

ActiveCountLocked(c) ==
    /\ call[c].pc = "lock" /\ call[c].op = "ActiveCount"
    /\ ActiveCount(c)

\* The mutex is granted to a waiting caller.
Locked(c) ==
    \/ AcquireLocked(c)
    \/ TouchLocked(c)
    \/ ReleaseLocked(c)
    \/ ActiveCountLocked(c)

\* A caller runs on inside the mutex and returns.
Inside(c) ==
    \/ CheckLimit(c)
    \/ AcquireInsert(c)
    \/ TouchInsert(c)
    \/ Return(c)

\* Stop, called once during shutdown.
StopOnce == ~done /\ Stop

\* Two callers whose calls wait for the mutex, the reaper, and one Stop.
NextCalls ==
    \/ \E c \in Callers, rq \in FairRequests, op \in {"Acquire", "Touch", "Release"} :
         Invoke(c, op, rq[1], rq[2])
    \/ \E c \in Callers : Invoke(c, "ActiveCount", "", "")
    \/ \E c \in Callers : Locked(c) \/ Inside(c)
    \/ ReaperNext(2 * hlsStaleTimeout)
    \/ StopOnce
    \/ SweeperDone

\* Fair scheduling: a goroutine inside the mutex runs on, and sync.RWMutex
\* grants a waiting Lock or RLock that can be granted again and again.
\* Nothing obliges a goroutine to call, time to pass, or anyone to Stop.
FairCalls ==
    /\ \A c \in Callers : WF_vars(Inside(c)) /\ SF_vars(Locked(c))
    /\ SF_vars(SweeperLock)
    /\ WF_vars(SweeperSweep)

SpecCalls == Init /\ [][NextCalls]_vars /\ FairCalls

\* C11: with maxConnections = 0 no Acquire and no Touch is rejected, whatever
\* the key and the size of the active set: a call for a tracked key returns
\* nil, a call for an untracked key passes the admission check, stores exactly
\* one entry, under its key, and returns nil.
C11_UnlimitedAdmitsAll ==
    [][\A c \in Callers :
          maxConnections = 0 =>
              /\ admitting(c)' => ~call'[c].ret.err
              /\ ( call[c].pc = "idle" /\ admitting(c)' )
                 => call'[c].pc =
                        IF connKey(call'[c].clientIP, call'[c].streamID) \in DOMAIN active
                        THEN "return" ELSE "checkLimit"
              /\ ( call[c].pc = "checkLimit" /\ call'[c] # call[c] )
                 => call'[c].pc = "insert"
              /\ ( call[c].pc = "insert" /\ call'[c] # call[c] )
                 => /\ call'[c].pc = "return"
                    /\ DOMAIN active' =
                           DOMAIN active \cup {connKey(call[c].clientIP, call[c].streamID)}
                    /\ Cardinality(DOMAIN active') = Cardinality(DOMAIN active) + 1
      ]_vars

\* Every key the callers can name is tracked, entries of three clients among
\* them, and the call that stored the last one has returned nil.
C11_Witness ==
    /\ maxConnections = 0
    /\ DOMAIN active = {connKey(rq[1], rq[2]) : rq \in Requests}
    /\ \E c \in Callers :
          /\ call[c].pc = "return" /\ admitting(c) /\ ~call[c].ret.err
          /\ active[connKey(call[c].clientIP, call[c].streamID)].startTime = now
          /\ now > 0

\* C12: N goroutines call Acquire or Touch at once, for N different keys, on
\* an empty limiter with maxConnections = N: in every interleaving no call
\* returns the error, every call that has passed its insertion is counted
\* once, and when all have returned the active set holds N entries.
C12_ConcurrentAdmissions ==
    /\ \A c \in ConcurrentCallers :
          call[c].pc = "return" => ~call[c].ret.err /\ key(c) \in DOMAIN active
    /\ Cardinality(DOMAIN active) =
           Cardinality({c \in ConcurrentCallers : call[c].pc \in {"return", "idle"}})
    /\ (\A c \in ConcurrentCallers : call[c].pc = "idle")
           => Cardinality(DOMAIN active) = Cardinality(ConcurrentCallers)

\* All the calls have returned; entries of both kinds and of three clients
\* are tracked.
C12_Witness ==
    /\ \A c \in ConcurrentCallers : call[c].pc = "idle"
    /\ Cardinality(DOMAIN active) = Cardinality(ConcurrentCallers)
    /\ mu = [w |-> {}, r |-> {}]
    /\ \E j, k \in DOMAIN active : active[j].isHLS /\ ~active[k].isHLS
    /\ Cardinality({active[k].clientIP : k \in DOMAIN active}) = 3

\* C13: Touch on a tracked key sets that entry's lastSeen to now and changes
\* nothing else: the entry's startTime, isHLS and clientIP, every other entry
\* and the set of keys stay as they were; and a sweep keeps a Polled entry
\* whose lastSeen is no older than hlsStaleTimeout, however old its startTime.
C13_TouchRefreshesLastSeenOnly ==
    [][/\ \A c \in Callers :
            ( /\ call[c].pc = "idle" /\ call'[c].op = "Touch"
              /\ connKey(call'[c].clientIP, call'[c].streamID) \in DOMAIN active )
            => LET k == connKey(call'[c].clientIP, call'[c].streamID) IN
               /\ DOMAIN active' = DOMAIN active
               /\ active'[k].lastSeen = now
               /\ active'[k].startTime = active[k].startTime
               /\ active'[k].isHLS = active[k].isHLS
               /\ active'[k].clientIP = active[k].clientIP
               /\ \A j \in DOMAIN active \ {k} : active'[j] = active[j]
       /\ ( sweeper = "sweep" /\ sweeper' # "sweep" )
            => \A k \in DOMAIN active :
                   ( active[k].isHLS /\ now - active[k].lastSeen <= hlsStaleTimeout )
                   => k \in DOMAIN active' /\ active'[k] = active[k]
      ]_vars

\* A Polled entry stored at 0 and refreshed one hlsStaleTimeout later is still
\* there after the sweep that ran two hlsStaleTimeout after its creation.
C13_Witness ==
    /\ sweeper = "select" /\ ~ticker /\ now = 2 * hlsStaleTimeout
    /\ \E k \in DOMAIN active :
          /\ active[k].isHLS
          /\ active[k].startTime = 0
          /\ active[k].lastSeen = hlsStaleTimeout

\* C14: two different (clientIP, streamID) pairs are tracked as two entries:
\* an Acquire or Touch that returns nil leaves an entry of its own pair in
\* the active set, never only an entry another pair's call has stored.
C14_PairsTrackedSeparately ==
    \A c \in Callers :
        ( call[c].pc = "return" /\ admitting(c) /\ ~call[c].ret.err )
        => /\ connKey(call[c].clientIP, call[c].streamID) \in DOMAIN active
           /\ active[connKey(call[c].clientIP, call[c].streamID)].clientIP = call[c].clientIP

\* C15: the error Acquire or Touch returns carries the size of the active set
\* at the rejection, which is L or L + 1, and maxConnections.
C15_ErrorCarriesCountAndLimit ==
    \A c \in Callers :
        ( call[c].pc = "return" /\ admitting(c) /\ call[c].ret.err )
        => /\ call[c].ret.count = Cardinality(DOMAIN active)
           /\ call[c].ret.max = maxConnections
           /\ call[c].ret.count \in {maxConnections, maxConnections + 1}

\* An Acquire was rejected with the grace slot taken: the error reads 3/2.
C15_Witness ==
    \E c \in Callers :
        /\ call[c].pc = "return" /\ call[c].op = "Acquire" /\ call[c].ret.err
        /\ call[c].ret.count = 3 /\ call[c].ret.max = 2

\* C16: with L > 0 and fewer than L entries, an Acquire or Touch for an
\* untracked key is admitted whoever the client is: it runs the admission
\* check, the check passes, and the call stores exactly one entry, under its
\* key, with startTime = lastSeen = now, its clientIP, and isHLS false for
\* Acquire and true for Touch, leaving the other entries as they were.
C16_AdmittedBelowLimit ==
    [][\A c \in Callers :
          ( maxConnections > 0 /\ Cardinality(DOMAIN active) < maxConnections ) =>
              /\ ( /\ call[c].pc = "idle" /\ admitting(c)'
                   /\ connKey(call'[c].clientIP, call'[c].streamID) \notin DOMAIN active )
                 => call'[c].pc = "checkLimit" /\ active' = active
              /\ ( call[c].pc = "checkLimit" /\ call'[c] # call[c] )
                 => call'[c].pc = "insert" /\ active' = active
              /\ ( call[c].pc = "insert" /\ call'[c] # call[c] )
                 => LET k == connKey(call[c].clientIP, call[c].streamID) IN
                    /\ call'[c].pc = "return" /\ ~call'[c].ret.err
                    /\ DOMAIN active' = DOMAIN active \cup {k}
                    /\ Cardinality(DOMAIN active') = Cardinality(DOMAIN active) + 1
                    /\ active'[k] = [startTime |-> now, lastSeen |-> now,
                                     isHLS |-> (call[c].op = "Touch"),
                                     clientIP |-> call[c].clientIP]
                    /\ \A j \in DOMAIN active : active'[j] = active[j]
      ]_vars

\* A Touch of a client with no other stream has been admitted into the last
\* free slot, later than the entry of another client.
C16_Witness ==
    \E c \in Callers :
        /\ call[c].pc = "return" /\ call[c].op = "Touch" /\ ~call[c].ret.err
        /\ maxConnections = 2 /\ Cardinality(DOMAIN active) = 2
        /\ now > 0
        /\ connKey(call[c].clientIP, call[c].streamID) \in DOMAIN active
        /\ active[connKey(call[c].clientIP, call[c].streamID)] =
               [startTime |-> now, lastSeen |-> now, isHLS |-> TRUE,
                clientIP |-> call[c].clientIP]
        /\ \E j \in DOMAIN active :
              active[j].clientIP # call[c].clientIP /\ active[j].startTime < now

\* C17: under fair scheduling, with the reaper not stopped, a Polled entry
\* whose lastSeen is t is eventually removed from the active set, unless a
\* Touch refreshes it, a Release removes it or Stop is called first.  The
\* clock being watched up to MaxPeriods * hlsStaleTimeout, t ranges over the
\* instants that leave time for the entry to grow older than hlsStaleTimeout.
C17_StalePolledEventuallyReaped ==
    \A rq \in FairRequests, i \in 0 .. (MaxPeriods - 2) :
        ( /\ connKey(rq[1], rq[2]) \in DOMAIN active
          /\ active[connKey(rq[1], rq[2])].isHLS
          /\ active[connKey(rq[1], rq[2])].lastSeen = i * hlsStaleTimeout
          /\ ~done )
        ~> ( \/ connKey(rq[1], rq[2]) \notin DOMAIN active
             \/ ~active[connKey(rq[1], rq[2])].isHLS
             \/ active[connKey(rq[1], rq[2])].lastSeen # i * hlsStaleTimeout
             \/ done )

\* The sweep goroutine holds the mutex, about to remove a Polled entry that
\* nobody refreshed or released, with Stop not called.
C17_Witness ==
    /\ sweeper = "sweep" /\ ~done
    /\ \E k \in DOMAIN active :
          active[k].isHLS /\ now - active[k].lastSeen > hlsStaleTimeout

\* C18: an entry stays in the active set, with its startTime, isHLS and
\* clientIP, until a Release of its key deletes it or a sweep removes it as a
\* Polled entry older than hlsStaleTimeout; no step of an Acquire or a Touch,
\* whatever its key and its outcome, takes a key out of the set.
C18_EntryStaysUntilReleasedOrSwept ==
    [][/\ \A k \in DOMAIN active :
            \/ /\ k \in DOMAIN active'
               /\ active'[k].startTime = active[k].startTime
               /\ active'[k].isHLS = active[k].isHLS
               /\ active'[k].clientIP = active[k].clientIP
            \/ /\ k \notin DOMAIN active'
               /\ \/ \E c \in Callers :
                        /\ call[c].pc = "idle" /\ call'[c].op = "Release"
                        /\ connKey(call'[c].clientIP, call'[c].streamID) = k
                  \/ /\ sweeper = "sweep" /\ sweeper' # "sweep"
                     /\ active[k].isHLS
                     /\ now - active[k].lastSeen > hlsStaleTimeout
       /\ \A c \in Callers :
            ( call'[c] # call[c] /\ (admitting(c) \/ admitting(c)') )
            => DOMAIN active \subseteq DOMAIN active'
      ]_vars

\* A Touch has refreshed an entry stored at 0, after time has passed and
\* another call has been admitted: the old entry is there with its startTime.
C18_Witness ==
    \E c \in Callers :
        /\ call[c].pc = "return" /\ call[c].op = "Touch" /\ ~call[c].ret.err
        /\ now > 0
        /\ connKey(call[c].clientIP, call[c].streamID) \in DOMAIN active
        /\ active[connKey(call[c].clientIP, call[c].streamID)].startTime = 0
        /\ active[connKey(call[c].clientIP, call[c].streamID)].lastSeen = now
        /\ \E j \in DOMAIN active : active[j].startTime = now

\* A goroutine holds the mutex exactly while it is inside an operation.
holders ==
    {c \in Callers : call[c].pc \in {"checkLimit", "insert", "return"}}
        \cup (IF sweeper = "sweep" THEN {Sweeper} ELSE {})

\* C19: every call of Acquire, Touch, Release or ActiveCount returns, under
\* fair scheduling, whatever the other caller and the sweep goroutine do and
\* whether Stop has been called or not: the mutex is held by exactly the
\* goroutines inside an operation, so every path has let go of it at its
\* return; whenever a goroutine waits for the mutex, the mutex can be granted
\* or a goroutine holding it can take a step; and a call that has been made
\* leads to its return.
C19_EveryCallReturns ==
    /\ [](mu.w \cup mu.r = holders)
    /\ []( ( sweeper = "lock" \/ \E c \in Callers : call[c].pc = "lock" )
             => ENABLED ( \/ \E c \in Callers : Locked(c) \/ Inside(c)
                          \/ SweeperLock
                          \/ SweeperSweep ) )
    /\ \A c \in Callers : ( call[c].pc # "idle" ) ~> ( call[c].pc = "idle" )

\* A rejected Acquire is about to return while the other caller and the
\* sweep goroutine wait for the mutex, after Stop.
C19_Witness ==
    \E c, d \in Callers :
        /\ call[c].pc = "return" /\ call[c].op = "Acquire" /\ call[c].ret.err
        /\ call[d].pc = "lock"
        /\ sweeper = "lock"
        /\ done

\* C20: an entry keeps the isHLS it was stored with for as long as it is in
\* the active set.  An Acquire on a tracked key changes nothing of the entry,
\* so an entry a Touch stored stays Polled, with its lastSeen, and a sweep
\* removes it once it is older than hlsStaleTimeout; a Touch on an entry an
\* Acquire stored leaves it Persistent, and no sweep removes a Persistent
\* entry.
C20_KindNeverChanges ==
    [][/\ \A k \in DOMAIN active \cap DOMAIN active' : active'[k].isHLS = active[k].isHLS
       /\ \A c \in Callers :
            ( /\ call[c].pc = "idle" /\ call'[c].op = "Acquire"
              /\ connKey(call'[c].clientIP, call'[c].streamID) \in DOMAIN active )
            => active' = active
       /\ ( sweeper = "sweep" /\ sweeper' # "sweep" )
            => \A k \in DOMAIN active :
                   k \in DOMAIN active' <=>
                       ~( active[k].isHLS /\ now - active[k].lastSeen > hlsStaleTimeout )
      ]_vars

\* An Acquire has returned nil for a key a Touch stored; the entry is still
\* Polled and older than hlsStaleTimeout, and the sweep that will remove it
\* waits for the mutex, next to a Persistent entry that a Touch refreshed.
C20_Witness ==
    \E c \in Callers :
        /\ call[c].pc = "return" /\ call[c].op = "Acquire" /\ ~call[c].ret.err
        /\ sweeper = "lock"
        /\ connKey(call[c].clientIP, call[c].streamID) \in DOMAIN active
        /\ active[connKey(call[c].clientIP, call[c].streamID)].isHLS
        /\ now - active[connKey(call[c].clientIP, call[c].streamID)].lastSeen > hlsStaleTimeout
        /\ \E j \in DOMAIN active :
              ~active[j].isHLS /\ active[j].lastSeen > active[j].startTime

====
